---- MODULE Spec2Model ----
(***************************************************************************)
(* Water Properties API (src/water_props_api.py): the per-request state    *)
(* machine of solve_state, the input-pair dispatcher, the seven solvers    *)
(* and the phase classifier.                                               *)
(*                                                                         *)
(* Numbers.  A Python float is modelled as an exact decimal <<w, f>>       *)
(* standing for w + f/Denom with 0 <= f < Denom (floor convention, so      *)
(* -0.5 is <<-1, 1000>>).  Every literal of the source (0, 1, 200, 250,    *)
(* 2000, 1e3, 1e8, 273.15, 1e-3) is exact in this representation.          *)
(*                                                                         *)
(* The equation-of-state evaluator (CoolProp) and the scipy root finders   *)
(* are external.  The evaluator is modelled on a sample grid with values   *)
(* of the right shape for water (saturation curve, melting point, enthalpy *)
(* and entropy increasing in T with a jump at saturation).  Three          *)
(* behaviours of the evaluator that the source cannot decide are left open *)
(* and fixed when the process starts: whether it evaluates below the       *)
(* triple-point temperature, whether it answers the ("phase","solid")      *)
(* query of melting_temperature, and whether it evaluates a (P,T) state    *)
(* lying exactly on the saturation line.                                   *)
(***************************************************************************)
EXTENDS Integers, Sequences, FiniteSets

VARIABLES
    pc,         \* stage of the request being served
    req,        \* StateRequest as received: input1_name, input1_value, ...
    n1, n2,     \* solve_state locals: upper-cased names
    v1, v2,     \* solve_state locals: the two values
    P, T,       \* resolved pressure and temperature
    quality,    \* resolved quality, None when the pair carries none
    phase,      \* tag returned by detect_phase_PT
    resp,       \* StateResponse, None until the request succeeds
    err,        \* failure response, NoErr until the request fails
    touched,    \* external components queried so far for this request
    held,       \* solve_Ph / solve_Ps locals: the pressure held fixed and the target
    subTriple,  \* evaluator accepts temperatures below the triple point
    meltQuery,  \* evaluator answers the ("phase","solid") melting query
    satLinePT   \* evaluator accepts (P,T) exactly on the saturation line

vars == <<pc, req, n1, n2, v1, v2, P, T, quality, phase, resp, err, touched,
          held, subTriple, meltQuery, satLinePT>>

-----------------------------------------------------------------------------
(* Exact decimals *)

Denom == 2000

None == <<>>

Lt(a, b) == a[1] < b[1] \/ (a[1] = b[1] /\ a[2] < b[2])
Le(a, b) == a = b \/ Lt(a, b)
Gt(a, b) == Lt(b, a)

Abs(i) == IF i < 0 THEN -i ELSE i

\* abs(a - b) < 1e-3
WithinMilli(a, b) ==
    LET dw == a[1] - b[1]
    IN  /\ dw \in -1..1
        /\ 1000 * Abs(dw * Denom + a[2] - b[2]) < Denom

\* sign of a - b
Sign(a, b) == IF Lt(a, b) THEN -1 ELSE IF a = b THEN 0 ELSE 1

Zero == <<0, 0>>
One == <<1, 0>>
TwoHundred == <<200, 0>>
T_MELT_DEFAULT == <<273, 300>>      \* 273.15
BRENT_T_LO == <<250, 0>>
BRENT_T_HI == <<2000, 0>>
BRENT_P_LO == <<1000, 0>>
BRENT_P_HI == <<100000000, 0>>
FSOLVE_P0 == <<100000, 0>>
FSOLVE_T0 == <<500, 0>>

-----------------------------------------------------------------------------
(* Sample inputs *)

P_TRIPLE == <<611, 1314>>           \* 611.657 Pa
T_TRIPLE == <<273, 320>>            \* 273.16 K
P_ATM == <<101325, 0>>
T_SAT_ATM == <<373, 248>>           \* 373.124 K
P_CRIT == <<22064000, 0>>
T_CRIT == <<647, 192>>              \* 647.096 K
P_MAX == <<1000000000, 0>>
T_MAX == <<2000, 0>>

Samples ==
    << <<0, 1000>>,                 \* 0.5
       <<1, 1000>>,                 \* 1.5
       <<260, 0>>,
       <<273, 319>>,                \* 273.1595, half a millikelvin under the triple point
       <<300, 0>>,
       <<373, 249>>,                \* 373.1245, half a millikelvin over saturation at 1 atm
       P_TRIPLE,
       P_ATM,
       <<108000, 0>>,               \* enthalpy of the liquid at (1 atm, 300 K)
       <<378, 0>>,                  \* entropy of the liquid at (1 atm, 300 K)
       <<994, 0>>,                  \* density of the liquid at (1 atm, 300 K)
       <<-1, 1000>>,                \* -0.5
       T_SAT_ATM,
       <<400, 0>> >>

NumSamples == 12

Values ==
    {Samples[i] : i \in 1..(IF NumSamples < Len(Samples) THEN NumSamples ELSE Len(Samples))}

Names == {"P", "T", "X", "H", "S", "D", "p"}

Requests ==
    [input1_name : Names, input1_value : Values,
     input2_name : Names, input2_value : Values]

-----------------------------------------------------------------------------
(* The property evaluator: CP.PropsSI(output, in1, v1, in2, v2, "Water") *)

OracleOk(v) == [ok |-> TRUE, val |-> v]
OracleFail == [ok |-> FALSE, val |-> None]

\* Points <<P, T>> of the saturation curve of water, P in Pa and T in K.
SatCurve ==
    { <<P_TRIPLE, T_TRIPLE>>,
      <<<<3536, 1600>>, <<300, 0>>>>,
      <<P_ATM, T_SAT_ATM>>,
      <<<<101326, 1600>>, <<373, 249>>>>,
      <<<<120000, 0>>, <<378, 0>>>>,
      <<<<245770, 0>>, <<400, 0>>>>,
      <<<<14300000, 0>>, <<611, 1314>>>>,
      <<P_CRIT, T_CRIT>> }

\* The curve point with the greatest pressure not above p (p on or above the
\* triple point): the curve itself at its points, a step between them.
SatPointAtP(p) ==
    CHOOSE c \in SatCurve :
        /\ Le(c[1], p)
        /\ \A d \in SatCurve : Le(d[1], p) => Le(d[1], c[1])

SatPointAtT(t) ==
    CHOOSE c \in SatCurve :
        /\ Le(c[2], t)
        /\ \A d \in SatCurve : Le(d[2], t) => Le(d[2], c[2])

\* PropsSI("T", "P", p, "Q", q): saturation temperature, the same for every
\* quality of a pure fluid; no saturation below the triple point or above the
\* critical point.
OracleTsat(p, q) ==
    IF Le(P_TRIPLE, p) /\ Le(p, P_CRIT) /\ Le(Zero, q) /\ Le(q, One)
    THEN OracleOk(SatPointAtP(p)[2])
    ELSE OracleFail

\* PropsSI("P", "T", t, "Q", q): saturation pressure.
OraclePsat(t, q) ==
    IF Le(T_TRIPLE, t) /\ Le(t, T_CRIT) /\ Le(Zero, q) /\ Le(q, One)
    THEN OracleOk(SatPointAtT(t)[1])
    ELSE OracleFail

\* PropsSI("T", "P", p, "phase", "solid"): melting temperature of ice Ih, when
\* the evaluator answers this query at all: 273.16 K at the triple point,
\* falling with pressure.
OracleTmelt(p) ==
    IF meltQuery /\ Le(P_TRIPLE, p) /\ Le(p, P_MAX)
    THEN OracleOk(IF p = P_TRIPLE THEN T_TRIPLE
                  ELSE IF Le(p, P_CRIT) THEN <<273, 300>>
                  ELSE <<272, 0>>)
    ELSE OracleFail

OnSatLine(p, t) == OracleTsat(p, Zero).ok /\ OracleTsat(p, Zero).val = t

\* The (P,T) states the evaluator computes single-phase properties for.  A
\* (P,T) pair on the saturation line does not fix a state of the two-phase
\* mixture; CoolProp raises there ("Saturation pressure ... is within 1e-4 %
\* of given p"), an evaluator that picks a branch is the other possibility.
ValidPT(p, t) ==
    /\ p # None /\ t # None
    /\ Gt(p, Zero) /\ Le(p, P_MAX)
    /\ Gt(t, Zero) /\ Le(t, T_MAX)
    /\ (subTriple \/ Le(T_TRIPLE, t))
    /\ (satLinePT \/ ~OnSatLine(p, t))

IsVapor(p, t) ==
    IF Lt(p, P_TRIPLE) THEN TRUE
    ELSE IF Le(p, P_CRIT) THEN Le(OracleTsat(p, Zero).val, t)
    ELSE Lt(T_CRIT, t)

\* Magnitudes of enthalpy (J/kg), entropy (J/kg/K) and density (kg/m3) on the
\* sample grid: linear in T within a phase, with the jump of vaporisation.
OracleH(p, t) ==
    IF IsVapor(p, t) THEN <<2500000 + 2000 * (t[1] - 273) + t[2], 0>>
    ELSE <<4000 * (t[1] - 273) + 2 * t[2], 0>>

OracleS(p, t) ==
    IF IsVapor(p, t) THEN <<7000 + 2 * (t[1] - 273), 0>>
    ELSE <<14 * (t[1] - 273) + (14 * t[2]) \div Denom, 0>>

OracleD(p, t) ==
    IF IsVapor(p, t)
    THEN LET rt == (462 * t[1]) \div Denom
             u  == p[1] \div (IF rt < 1 THEN 1 ELSE rt)
         IN  <<u \div Denom, u % Denom>>
    ELSE <<1000 - (t[1] - 273) \div 4 + p[1] \div 2000000, 0>>

\* PropsSI(name, "P", p, "T", t) for the three outputs the root finders use.
OracleNum(name, p, t) ==
    IF ~ValidPT(p, t) THEN OracleFail
    ELSE OracleOk(CASE name = "H" -> OracleH(p, t)
                    [] name = "S" -> OracleS(p, t)
                    [] OTHER -> OracleD(p, t))

\* prop(name, P, T): the evaluator's answer, kept as the term <<name, P, T>>.
prop(name, p, t) ==
    IF ValidPT(p, t) THEN OracleOk(<<name, p, t>>) ELSE OracleFail

-----------------------------------------------------------------------------
(* scipy.optimize: brentq and fsolve on the sample grid *)

T_GRID ==
    << BRENT_T_LO, <<260, 0>>, <<273, 319>>, T_TRIPLE, <<300, 0>>, T_SAT_ATM,
       <<373, 249>>, <<378, 0>>, <<400, 0>>, <<611, 1314>>, T_CRIT, BRENT_T_HI >>

P_GRID ==
    << BRENT_P_LO, <<3536, 1600>>, P_ATM, <<101326, 1600>>, <<120000, 0>>,
       <<245770, 0>>, <<14300000, 0>>, P_CRIT, BRENT_P_HI >>

SeqRange(sq) == {sq[i] : i \in 1..Len(sq)}

RootOk(x) == [ok |-> TRUE, val |-> x, exc |-> "", detail |-> ""]
RootErr(exc, detail) == [ok |-> FALSE, val |-> None, exc |-> exc, detail |-> detail]

\* brentq(f, grid[1], grid[Len(grid)]): f[x] is the evaluator's answer for the
\* residual's sign at x.  An exception of f at an end point propagates; equal
\* signs at the end points are a ValueError; otherwise the first grid point
\* where the residual has left the sign it has at the lower end.
brentq(f, grid) ==
    LET fa == f[grid[1]]
        fb == f[grid[Len(grid)]]
        Left(i) == f[grid[i]].ok /\ f[grid[i]].val # fa.val
    IN  IF ~fa.ok \/ ~fb.ok THEN RootErr("ValueError", "PropsSI")
        ELSE IF fa.val * fb.val > 0
        THEN RootErr("ValueError", "f(a) and f(b) must have different signs")
        ELSE IF fa.val = 0 THEN RootOk(grid[1])
        ELSE RootOk(grid[CHOOSE i \in 1..Len(grid) :
                            Left(i) /\ \A j \in 1..(i - 1) : ~Left(j)])

\* sign of PropsSI(name, "P", p, "T", t) - target
Residual(name, p, t, target) ==
    LET q == OracleNum(name, p, t)
    IN  IF q.ok THEN OracleOk(Sign(q.val, target)) ELSE OracleFail

\* fsolve(equations, (P0, T0)): a grid state solving both equations when there
\* is one; otherwise the iteration ends without converging and its last
\* iterate is returned all the same, or an iterate leaves the evaluator's
\* domain and the evaluator's exception propagates.
fsolve(h, s) ==
    LET roots == {st \in SeqRange(P_GRID) \X SeqRange(T_GRID) :
                    /\ Residual("H", st[1], st[2], h) = OracleOk(0)
                    /\ Residual("S", st[1], st[2], s) = OracleOk(0)}
    IN  IF roots # {} THEN {RootOk(st) : st \in roots}
        ELSE {RootOk(<<FSOLVE_P0, FSOLVE_T0>>), RootErr("ValueError", "PropsSI")}

-----------------------------------------------------------------------------
(* Solver implementations *)

Resolved(p, t, x, used) ==
    [ok |-> TRUE, P |-> p, T |-> t, x |-> x,
     exc |-> "", code |-> 0, detail |-> "", used |-> used, held |-> None]

Raised(exc, code, detail, used) ==
    [ok |-> FALSE, P |-> None, T |-> None, x |-> None,
     exc |-> exc, code |-> code, detail |-> detail, used |-> used, held |-> None]

HTTPException(code, detail, used) == Raised("HTTPException", code, detail, used)

solve_PT(a, b) == Resolved(a, b, None, {})

solve_Px(a, b) ==
    LET p == IF Gt(a, One) THEN a ELSE b
        x == IF p = a THEN b ELSE a
        t == OracleTsat(p, x)
    IN  IF ~(Le(Zero, x) /\ Le(x, One))
        THEN HTTPException(400, "Quality must be between 0 and 1", {})
        ELSE IF ~t.ok THEN Raised("ValueError", 0, "PropsSI", {"PropsSI"})
        ELSE Resolved(p, t.val, x, {"PropsSI"})

solve_Tx(a, b) ==
    LET t == IF Gt(a, TwoHundred) THEN a ELSE b
        x == IF t = a THEN b ELSE a
        p == OraclePsat(t, x)
    IN  IF ~(Le(Zero, x) /\ Le(x, One))
        THEN HTTPException(400, "Quality must be between 0 and 1", {})
        ELSE IF ~p.ok THEN Raised("ValueError", 0, "PropsSI", {"PropsSI"})
        ELSE Resolved(p.val, t, x, {"PropsSI"})

\* The pressure solve_Ph and solve_Ps hold fixed, and their target.
FixedP(a, b) == IF Gt(a, One) THEN a ELSE b
Target(a, b) == IF FixedP(a, b) = a THEN b ELSE a

Holding(outcome, p, target) ==
    [outcome EXCEPT !.held = [fixed |-> p, target |-> target]]

solve_Ph(a, b) ==
    LET p == FixedP(a, b)
        h_target == Target(a, b)
        f == [t \in SeqRange(T_GRID) |-> Residual("H", p, t, h_target)]
        r == brentq(f, T_GRID)
    IN  Holding(IF r.ok THEN Resolved(p, r.val, None, {"brentq", "PropsSI"})
                ELSE Raised(r.exc, 0, r.detail, {"brentq", "PropsSI"}),
                p, h_target)

solve_Ps(a, b) ==
    LET p == FixedP(a, b)
        s_target == Target(a, b)
        f == [t \in SeqRange(T_GRID) |-> Residual("S", p, t, s_target)]
        r == brentq(f, T_GRID)
    IN  Holding(IF r.ok THEN Resolved(p, r.val, None, {"brentq", "PropsSI"})
                ELSE Raised(r.exc, 0, r.detail, {"brentq", "PropsSI"}),
                p, s_target)

solve_hs(h, s) ==
    {IF r.ok THEN Resolved(r.val[1], r.val[2], None, {"fsolve", "PropsSI"})
     ELSE Raised(r.exc, 0, r.detail, {"fsolve", "PropsSI"}) : r \in fsolve(h, s)}

solve_rhoT(a, b) ==
    LET rho == IF Gt(a, One) THEN a ELSE b
        t == IF rho = a THEN b ELSE a
        f == [p \in SeqRange(P_GRID) |-> Residual("D", p, t, rho)]
        r == brentq(f, P_GRID)
    IN  IF r.ok THEN Resolved(r.val, t, None, {"brentq", "PropsSI"})
        ELSE Raised(r.exc, 0, r.detail, {"brentq", "PropsSI"})

-----------------------------------------------------------------------------
(* Solver dispatcher: the set of outcomes of dispatch_solver(n1, v1, n2, v2) *)

\* Variant: the {P,T} test made by membership of each name instead of on the
\* unordered pair, so that P twice (or T twice) is taken for {P,T}.
dispatch_solver_loose(na, a, nb, b) ==
    LET pair == {na, nb}
    IN  IF na \in {"P", "T"} /\ nb \in {"P", "T"} THEN {solve_PT(a, b)}
        ELSE IF pair = {"P", "X"} THEN {solve_Px(a, b)}
        ELSE IF pair = {"T", "X"} THEN {solve_Tx(a, b)}
        ELSE IF pair = {"P", "H"} THEN {solve_Ph(a, b)}
        ELSE IF pair = {"P", "S"} THEN {solve_Ps(a, b)}
        ELSE IF pair = {"H", "S"} THEN solve_hs(a, b)
        ELSE IF pair = {"D", "T"} THEN {solve_rhoT(a, b)}
        ELSE {HTTPException(400, "Unsupported input pair", {})}

dispatch_solver(na, a, nb, b) ==
    LET pair == {na, nb}
    IN  IF pair = {"P", "T"} THEN {solve_PT(a, b)}
        ELSE IF pair = {"P", "X"} THEN {solve_Px(a, b)}
        ELSE IF pair = {"T", "X"} THEN {solve_Tx(a, b)}
        ELSE IF pair = {"P", "H"} THEN {solve_Ph(a, b)}
        ELSE IF pair = {"P", "S"} THEN {solve_Ps(a, b)}
        ELSE IF pair = {"H", "S"} THEN solve_hs(a, b)
        ELSE IF pair = {"D", "T"} THEN {solve_rhoT(a, b)}
        ELSE {HTTPException(400, "Unsupported input pair", {})}

-----------------------------------------------------------------------------
(* Helpers *)

melting_temperature(p) ==
    LET q == OracleTmelt(p)
    IN  IF q.ok THEN q.val ELSE T_MELT_DEFAULT

\* Variant: the saturation test made before the ice test.
detect_phase_PT_satfirst(p, t) ==
    LET Tm == melting_temperature(p)
        Tsat == OracleTsat(p, Zero)
    IN  IF ~Tsat.ok THEN "raise"
        ELSE IF WithinMilli(t, Tsat.val) THEN "saturated"
        ELSE IF Lt(t, Tm) THEN "ice"
        ELSE IF Gt(t, Tsat.val) THEN "superheated_vapor"
        ELSE "subcooled_liquid"

\* The tag detect_phase_PT returns, or "raise" when the saturation query
\* raises (both queries are made before any comparison).
detect_phase_PT(p, t) ==
    LET Tm == melting_temperature(p)
        Tsat == OracleTsat(p, Zero)
    IN  IF ~Tsat.ok THEN "raise"
        ELSE IF Lt(t, Tm) THEN "ice"
        ELSE IF WithinMilli(t, Tsat.val) THEN "saturated"
        ELSE IF Gt(t, Tsat.val) THEN "superheated_vapor"
        ELSE "subcooled_liquid"

\* str.upper() on the one-letter names of the model.
upper(name) ==
    CASE name = "p" -> "P"
      [] name = "t" -> "T"
      [] name = "x" -> "X"
      [] name = "h" -> "H"
      [] name = "s" -> "S"
      [] name = "d" -> "D"
      [] OTHER -> name

-----------------------------------------------------------------------------
(* Main solver: the stages of solve_state *)

NoErr == [status |-> 0, exc |-> "", detail |-> ""]

\* The failure response of the route: an HTTPException carries its own status
\* code; any other exception is unhandled and the framework answers 500.
Respond(exc, code, detail) ==
    [status |-> IF exc = "HTTPException" THEN code ELSE 500,
     exc |-> exc, detail |-> detail]

\* Variant: a failed resolution is attempted again.
NextStage_retry(stage, ok) ==
    IF ~ok THEN (IF stage = "ResolveState" THEN "ResolveState" ELSE "Failed")
    ELSE CASE stage = "ParseInputs" -> "ResolveState"
           [] stage = "ResolveState" -> "ClassifyPhase"
           [] stage = "ClassifyPhase" -> "ComputeDerivedProperties"
           [] OTHER -> "Done"

\* solve_state is straight-line code: a stage that completes is followed by
\* the next one, an exception leaves the function.
NextStage(stage, ok) ==
    IF ~ok THEN "Failed"
    ELSE CASE stage = "ParseInputs" -> "ResolveState"
           [] stage = "ResolveState" -> "ClassifyPhase"
           [] stage = "ClassifyPhase" -> "ComputeDerivedProperties"
           [] OTHER -> "Done"

\* Variant: viscosity queried for every phase.
ViscosityField_always(ph, p, t) == prop("viscosity", p, t)

\* viscosity=None if phase == "ice" else prop("viscosity", P, T)
ViscosityField(ph, p, t) ==
    IF ph = "ice" THEN OracleOk(None) ELSE prop("viscosity", p, t)

Init ==
    /\ pc = "Idle"
    /\ req = None
    /\ n1 = "" /\ n2 = ""
    /\ v1 = None /\ v2 = None
    /\ P = None /\ T = None /\ quality = None
    /\ phase = ""
    /\ resp = None
    /\ err = NoErr
    /\ touched = {}
    /\ held = None
    /\ subTriple \in BOOLEAN
    /\ meltQuery \in BOOLEAN
    /\ satLinePT \in BOOLEAN

\* POST /water/state: the route hands the request to solve_state.
water_state ==
    /\ pc = "Idle"
    /\ \E r \in Requests : req' = r
    /\ pc' = "ParseInputs"
    /\ n1' = "" /\ n2' = ""
    /\ v1' = None /\ v2' = None
    /\ P' = None /\ T' = None /\ quality' = None
    /\ phase' = ""
    /\ resp' = None
    /\ err' = NoErr
    /\ touched' = {}
    /\ held' = None
    /\ UNCHANGED <<subTriple, meltQuery, satLinePT>>

ParseInputs ==
    /\ pc = "ParseInputs"
    /\ n1' = upper(req.input1_name)
    /\ n2' = upper(req.input2_name)
    /\ v1' = req.input1_value
    /\ v2' = req.input2_value
    /\ pc' = NextStage("ParseInputs", TRUE)
    /\ UNCHANGED <<req, P, T, quality, phase, resp, err, touched, held,
                   subTriple, meltQuery, satLinePT>>

ResolveState ==
    /\ pc = "ResolveState"
    /\ \E r \in dispatch_solver(n1, v1, n2, v2) :
        /\ P' = r.P /\ T' = r.T /\ quality' = r.x
        /\ touched' = r.used
        /\ held' = r.held
        /\ err' = IF r.ok THEN NoErr ELSE Respond(r.exc, r.code, r.detail)
        /\ pc' = NextStage("ResolveState", r.ok)
    /\ UNCHANGED <<req, n1, n2, v1, v2, phase, resp,
                   subTriple, meltQuery, satLinePT>>

ClassifyPhase ==
    /\ pc = "ClassifyPhase"
    /\ LET tag == detect_phase_PT(P, T)
           ok == tag # "raise" /\ ~(tag = "ice" /\ quality # None)
       IN  /\ phase' = IF tag = "raise" THEN "" ELSE tag
           /\ err' = IF tag = "raise" THEN Respond("ValueError", 0, "PropsSI")
                     ELSE IF ~ok
                     THEN Respond("HTTPException", 400, "Quality is not defined for ice")
                     ELSE NoErr
           /\ pc' = NextStage("ClassifyPhase", ok)
    /\ touched' = touched \cup {"PropsSI"}
    /\ UNCHANGED <<req, n1, n2, v1, v2, P, T, quality, resp, held,
                   subTriple, meltQuery, satLinePT>>

ComputeDerivedProperties ==
    /\ pc = "ComputeDerivedProperties"
    /\ LET density == prop("D", P, T)
           visc == ViscosityField(phase, P, T)
           ok == density.ok /\ visc.ok
       IN  /\ resp' = IF ok
                      THEN [P |-> P, T |-> T, phase |-> phase, quality |-> quality,
                            density |-> density.val,
                            specific_volume |-> <<"1/", density.val>>,
                            cp |-> prop("Cpmass", P, T).val,
                            cv |-> prop("Cvmass", P, T).val,
                            entropy |-> prop("Smass", P, T).val,
                            enthalpy |-> prop("Hmass", P, T).val,
                            conductivity |-> prop("conductivity", P, T).val,
                            viscosity |-> visc.val]
                      ELSE None
           /\ err' = IF ok THEN NoErr ELSE Respond("ValueError", 0, "PropsSI")
           /\ pc' = NextStage("ComputeDerivedProperties", ok)
    /\ touched' = touched \cup {"PropsSI"}
    /\ UNCHANGED <<req, n1, n2, v1, v2, P, T, quality, phase, held,
                   subTriple, meltQuery, satLinePT>>

\* The route returns: the response (or the failure) has been sent and the
\* request's objects are dropped.  Nothing survives from one request to the
\* next.
Reply ==
    /\ pc \in {"Done", "Failed"}
    /\ pc' = "Idle"
    /\ req' = None
    /\ n1' = "" /\ n2' = ""
    /\ v1' = None /\ v2' = None
    /\ P' = None /\ T' = None /\ quality' = None
    /\ phase' = ""
    /\ resp' = None
    /\ err' = NoErr
    /\ touched' = {}
    /\ held' = None
    /\ UNCHANGED <<subTriple, meltQuery, satLinePT>>

Next ==
    \/ water_state
    \/ ParseInputs
    \/ ResolveState
    \/ ClassifyPhase
    \/ ComputeDerivedProperties
    \/ Reply

Spec == Init /\ [][Next]_vars

-----------------------------------------------------------------------------
(* Properties *)

SupportedPairs ==
    { {"P", "T"}, {"P", "X"}, {"T", "X"}, {"P", "H"}, {"P", "S"},
      {"H", "S"}, {"D", "T"} }

\* The request's value supplied under the (upper-cased) name.
ValueNamed(name) ==
    IF upper(req.input1_name) = name THEN req.input1_value ELSE req.input2_value

ReqPair == {upper(req.input1_name), upper(req.input2_name)}

\* dispatch_solver has returned or raised for the current request.
Dispatched == pc \in {"ClassifyPhase", "ComputeDerivedProperties", "Done", "Failed"}

Finished == pc \in {"Done", "Failed"}

InUnit(x) == Le(Zero, x) /\ Le(x, One)

\* C1: for a {P,T} request with positive values in the evaluator's domain, in
\* either input order, the resolved pressure is the value named P and the
\* resolved temperature is the value named T.
C1_OrderIndependencePT ==
    (/\ Dispatched
     /\ ReqPair = {"P", "T"}
     /\ ValidPT(ValueNamed("P"), ValueNamed("T")))
    => (P = ValueNamed("P") /\ T = ValueNamed("T"))

\* C2: in every successful response quality is non-null if and only if phase
\* is the saturated tag.
C2_QualityIffSaturated ==
    pc = "Done" => ((resp.quality # None) <=> (resp.phase = "saturated"))

\* C3: a {P,X} or {T,X} request, in either order and for every positive value
\* of the other input, whose value named X is outside [0,1] fails with the
\* quality validation error (HTTP 400) and returns no state.
C3_QualityOutOfRangeRejected ==
    (/\ Dispatched
     /\ ReqPair \in {{"P", "X"}, {"T", "X"}}
     /\ ~InUnit(ValueNamed("X"))
     /\ Gt(ValueNamed(IF "P" \in ReqPair THEN "P" ELSE "T"), Zero))
    => (/\ pc = "Failed"
        /\ err.status = 400
        /\ err.detail = "Quality must be between 0 and 1"
        /\ P = None /\ resp = None)

\* C4: a {P,X} request with quality in [0,1] and a pressure on the saturation
\* curve, in either order, succeeds with P the given pressure, T the
\* saturation temperature at (P, x), quality x and phase saturated.
C4_PxResolvesToSaturation ==
    (/\ Finished
     /\ ReqPair = {"P", "X"}
     /\ InUnit(ValueNamed("X"))
     /\ OracleTsat(ValueNamed("P"), ValueNamed("X")).ok)
    => (/\ pc = "Done"
        /\ resp.P = ValueNamed("P")
        /\ resp.T = OracleTsat(ValueNamed("P"), ValueNamed("X")).val
        /\ resp.quality = ValueNamed("X")
        /\ resp.phase = "saturated")

\* C5: a request whose upper-cased names are not one of the seven supported
\* unordered pairs (the same name twice included) fails with the
\* unsupported-pair error, HTTP 400, before the evaluator or a root finder is
\* used and with no state resolved.
C5_UnsupportedPairRejected ==
    (Dispatched /\ ReqPair \notin SupportedPairs)
    => (/\ pc = "Failed"
        /\ err = [status |-> 400, exc |-> "HTTPException",
                  detail |-> "Unsupported input pair"]
        /\ touched = {}
        /\ P = None /\ T = None /\ resp = None)

C5_Witness ==
    /\ pc = "Failed"
    /\ req.input1_name = "p" /\ req.input2_name = "P"
    /\ err.detail = "Unsupported input pair"

\* C6: a 1-D root find that fails for want of a sign change at the bracket
\* ends in a client-error (4xx) response.
C6_RootFindFailureIsClientError ==
    (/\ pc = "Failed"
     /\ "brentq" \in touched
     /\ err.detail = "f(a) and f(b) must have different signs")
    => err.status \in 400..499

\* C7: in every successful response viscosity is null if and only if phase is
\* ice, and for a non-ice state it is the evaluator's viscosity at the
\* resolved (P, T).
C7_ViscosityIffNotIce ==
    pc = "Done" =>
        /\ (resp.viscosity = None) <=> (resp.phase = "ice")
        /\ resp.phase # "ice" => resp.viscosity = <<"viscosity", resp.P, resp.T>>

C7_Witness ==
    pc = "Done" /\ resp.phase = "ice" /\ resp.viscosity = None

\* C8: for a {P,H} or {P,S} request with positive values, in either order, the
\* pressure held fixed by the root find and reported as P is the value named
\* P, and the target is the value named H (or S).
C8_PressureHeldIsNamedP ==
    (/\ Dispatched
     /\ ReqPair \in {{"P", "H"}, {"P", "S"}}
     /\ Gt(req.input1_value, Zero) /\ Gt(req.input2_value, Zero))
    => (/\ held.fixed = ValueNamed("P")
        /\ held.target = ValueNamed(IF "H" \in ReqPair THEN "H" ELSE "S")
        /\ P # None => P = ValueNamed("P"))

\* C9: detect_phase_PT classifies by first match: T < T_melt is ice; else
\* |T - T_sat| < 1e-3 is saturated; else T > T_sat is superheated_vapor; else
\* subcooled_liquid; exactly one tag for every classified state.
C9_PhaseDecisionOrder ==
    phase # "" =>
        LET Tm == IF OracleTmelt(P).ok THEN OracleTmelt(P).val ELSE T_MELT_DEFAULT
            Tsat == OracleTsat(P, Zero).val
            ice == Lt(T, Tm)
            sat == WithinMilli(T, Tsat)
            above == Gt(T, Tsat)
        IN  /\ phase \in {"ice", "saturated", "superheated_vapor", "subcooled_liquid"}
            /\ ice => phase = "ice"
            /\ (~ice /\ sat) => phase = "saturated"
            /\ (~ice /\ ~sat /\ above) => phase = "superheated_vapor"
            /\ (~ice /\ ~sat /\ ~above) => phase = "subcooled_liquid"

C9_Witness ==
    /\ phase = "ice"
    /\ WithinMilli(T, OracleTsat(P, Zero).val)
    /\ Lt(T, T_TRIPLE)

\* The stage changes a request may make.
StageEdges ==
    { <<"Idle", "ParseInputs">>,
      <<"ParseInputs", "ResolveState">>,
      <<"ResolveState", "ClassifyPhase">>,
      <<"ClassifyPhase", "ComputeDerivedProperties">>,
      <<"ComputeDerivedProperties", "Done">>,
      <<"ResolveState", "Failed">>,
      <<"ClassifyPhase", "Failed">>,
      <<"ComputeDerivedProperties", "Failed">>,
      <<"Done", "Idle">>,
      <<"Failed", "Idle">> }

\* C10: a request passes through ParseInputs, ResolveState, ClassifyPhase,
\* ComputeDerivedProperties, Done in that order; a stage is never entered
\* twice nor an earlier one re-entered; a failing stage leads straight to
\* Failed with no later stage and no retry; from Done and Failed the request
\* only ends.
C10_StagesInOrder ==
    [][/\ <<pc, pc'>> \in StageEdges
       /\ (pc' = "Failed") <=> (pc # "Failed" /\ err' # NoErr)
       /\ pc' = "Failed" => (resp' = None /\ phase' = phase /\ P' \in {P, None})
       /\ pc \in {"Done", "Failed"} => req' = None]_vars

C10_Witness ==
    /\ pc = "Failed"
    /\ err.detail = "f(a) and f(b) must have different signs"

====
